---- MODULE Spec2Model ----
(***************************************************************************)
(* Model of ExcelReaderService (src/ExcelRangeReaderServiceData.ts, lines  *)
(* 18-279): lerIntervalos and the helpers it calls.  The other classes of  *)
(* the repository are earlier drafts of the same service.                  *)
(*                                                                         *)
(* Strings are sequences of one-character strings.  A JavaScript number is *)
(* a record [m, e] standing for m / 10^e (a finite decimal), or NaN.       *)
(* A thrown Error is a record [err |-> kind, ...].                         *)
(***************************************************************************)
EXTENDS Integers, Sequences, FiniteSets, TLC

VARIABLES
    pc,             \* position of the lerIntervalos call
    file,           \* the container: its named parts
    aba,            \* requested 1-based sheet index
    intervalos,     \* requested range expressions
    sheetXml,       \* worksheet part read by the call
    sharedStrings,  \* table built by parseSharedStrings
    styles,         \* StylesInfo built by parseStyles
    resultado,      \* column -> row -> value
    idx,            \* number of range expressions consumed by the for-of loop
    outcome,        \* what the promise settled with
    parsed,         \* number of parseInterval calls made so far
    resolved,       \* number of getCellValue calls made so far
    input,          \* argument of the helper function under study
    output          \* its return value (or thrown error)

vars == <<pc, file, aba, intervalos, sheetXml, sharedStrings, styles,
          resultado, idx, outcome, parsed, resolved, input, output>>

(***************************************************************************)
(* Bounds                                                                  *)
(***************************************************************************)
MaxExprLen == 6     \* longest range expression typed in SpecParse
MaxRanges == 2       \* longest range list of a lerIntervalos call
MaxCells == 2        \* most cell elements of a worksheet in SpecCell
MaxXfs == 2          \* most <xf> records of a style table in SpecFormat
MaxNumFmts == 1      \* most <numFmt> declarations of a style table
MaxItems == 3        \* most <si> items of a shared-strings part in SpecStrings

(***************************************************************************)
(* Characters and strings                                                  *)
(***************************************************************************)
UpperLetters == <<"A","B","C","D","E","F","G","H","I","J","K","L","M",
                  "N","O","P","Q","R","S","T","U","V","W","X","Y","Z">>
LowerLetters == <<"a","b","c","d","e","f","g","h","i","j","k","l","m",
                  "n","o","p","q","r","s","t","u","v","w","x","y","z">>
DigitChars == <<"0","1","2","3","4","5","6","7","8","9">>

Range(f) == {f[i] : i \in DOMAIN f}

UpperSet == Range(UpperLetters)
LowerSet == Range(LowerLetters)
DigitSet == Range(DigitChars)

IsUpper(c) == c \in UpperSet
IsLower(c) == c \in LowerSet
\* [A-Z] under the i flag
IsLetter(c) == IsUpper(c) \/ IsLower(c)
\* \d
IsDigit(c) == c \in DigitSet

IndexOf(c, tbl) == CHOOSE i \in DOMAIN tbl : tbl[i] = c

\* String.prototype.toUpperCase / toLowerCase, one character
UpperChar(c) == IF IsLower(c) THEN UpperLetters[IndexOf(c, LowerLetters)] ELSE c
LowerChar(c) == IF IsUpper(c) THEN LowerLetters[IndexOf(c, UpperLetters)] ELSE c

toUpperCase(s) == [i \in 1..Len(s) |-> UpperChar(s[i])]
toLowerCase(s) == [i \in 1..Len(s) |-> LowerChar(s[i])]

DigitValue(c) == IndexOf(c, DigitChars) - 1

\* Number(s) for a string of decimal digits
RECURSIVE DigitsToNat(_)
DigitsToNat(s) ==
    IF Len(s) = 0 THEN 0
    ELSE 10 * DigitsToNat(SubSeq(s, 1, Len(s) - 1)) + DigitValue(s[Len(s)])

\* String(n) for a natural number
RECURSIVE NatToDigits(_)
NatToDigits(n) ==
    IF n < 10 THEN <<DigitChars[n + 1]>>
    ELSE Append(NatToDigits(n \div 10), DigitChars[(n % 10) + 1])

\* length of the longest run of letters ([A-Z]+ under i) that starts at from
RECURSIVE LetterRun(_, _)
LetterRun(s, from) ==
    IF from > Len(s) \/ ~IsLetter(s[from]) THEN 0
    ELSE 1 + LetterRun(s, from + 1)

\* length of the longest run of digits (\d+) that starts at from
RECURSIVE DigitRun(_, _)
DigitRun(s, from) ==
    IF from > Len(s) \/ ~IsDigit(s[from]) THEN 0
    ELSE 1 + DigitRun(s, from + 1)

\* ^\d+$
AllDigitsOf(s) == Len(s) >= 1 /\ DigitRun(s, 1) = Len(s)

(***************************************************************************)
(* parseInterval                                                           *)
(***************************************************************************)
NoMatch == [matched |-> FALSE]

\* the backreference \1: under the i flag the text is compared ignoring case
\* (variants: the i flag lost, and the backreference replaced by [A-Z]+)
BackrefCaseSensitive(s, from, g1) ==
    /\ from + Len(g1) - 1 <= Len(s)
    /\ SubSeq(s, from, from + Len(g1) - 1) = g1

BackrefAnyColumn(s, from, g1) ==
    /\ from + Len(g1) - 1 <= Len(s)
    /\ \A i \in from..(from + Len(g1) - 1) : IsLetter(s[i])

BackrefMatches(s, from, g1) ==
    /\ from + Len(g1) - 1 <= Len(s)
    /\ toUpperCase(SubSeq(s, from, from + Len(g1) - 1)) = toUpperCase(g1)

\* interval.match(/^([A-Z]+)(\d+)-\1(\d+)$/i): letters and digits are disjoint
\* classes, so each greedy group takes the whole run and no other split matches
RangeMatch(s) ==
    LET a == LetterRun(s, 1)
        b == DigitRun(s, a + 1)
        g1 == SubSeq(s, 1, a)
        g2 == SubSeq(s, a + 1, a + b)
        c == a + b + 2 + a
        d == DigitRun(s, c)
    IN IF /\ a >= 1
          /\ b >= 1
          /\ a + b + 1 <= Len(s)
          /\ s[a + b + 1] = "-"
          /\ BackrefMatches(s, a + b + 2, g1)
          /\ d >= 1
          /\ c + d - 1 = Len(s)
       THEN [matched |-> TRUE, g1 |-> g1, g2 |-> g2, g3 |-> SubSeq(s, c, Len(s))]
       ELSE NoMatch

\* interval.match(/^([A-Z]+)(\d+)$/i)
SingleMatch(s) ==
    LET a == LetterRun(s, 1)
        b == DigitRun(s, a + 1)
    IN IF a >= 1 /\ b >= 1 /\ a + b = Len(s)
       THEN [matched |-> TRUE, g1 |-> SubSeq(s, 1, a), g2 |-> SubSeq(s, a + 1, Len(s))]
       ELSE NoMatch

InvalidRangeExpression(interval) ==
    [err |-> "InvalidRangeExpression", arg |-> interval]

IsError(v) == "err" \in DOMAIN v

parseInterval(interval) ==
    LET rangeMatch == RangeMatch(interval)
        singleMatch == SingleMatch(interval)
    IN IF rangeMatch.matched
       THEN [col |-> toUpperCase(rangeMatch.g1),
             start |-> DigitsToNat(rangeMatch.g2),
             end |-> DigitsToNat(rangeMatch.g3)]
       ELSE IF singleMatch.matched
       THEN LET row == DigitsToNat(singleMatch.g2)
            IN [col |-> toUpperCase(singleMatch.g1), start |-> row, end |-> row]
       ELSE InvalidRangeExpression(interval)

(***************************************************************************)
(* Values: string | number | null                                          *)
(***************************************************************************)
Null == [kind |-> "null"]
Text(s) == [kind |-> "text", s |-> s]
NumberValue(n) == [kind |-> "number", n |-> n]

NaN == [nan |-> TRUE]

\* the decimal m / 10^e with trailing zeros of the fraction removed
RECURSIVE Decimal(_, _)
Decimal(m, e) ==
    IF e > 0 /\ m % 10 = 0 THEN Decimal(m \div 10, e - 1)
    ELSE [m |-> m, e |-> e]

\* Number(text) for texts made of digits and ".": "" is 0, "12", "0.1", "1."
\* and ".5" are decimals, everything else is NaN
ToNumber(text) ==
    LET p == DigitRun(text, 1)
        q == DigitRun(text, p + 2)
    IN IF Len(text) = 0 THEN Decimal(0, 0)
       ELSE IF p = Len(text) THEN Decimal(DigitsToNat(text), 0)
       ELSE IF /\ text[p + 1] = "."
               /\ p + 1 + q = Len(text)
               /\ p + q >= 1
       THEN Decimal(DigitsToNat(SubSeq(text, 1, p) \o SubSeq(text, p + 2, Len(text))), q)
       ELSE NaN

RECURSIVE Pow10(_)
Pow10(e) == IF e = 0 THEN 1 ELSE 10 * Pow10(e - 1)

\* whole days in a non-negative day count
WholeDays(n) == n.m \div Pow10(n.e)

(***************************************************************************)
(* excelDateToString: new Date(1899, 11, 30) plus serial days, as          *)
(* dd/mm/yyyy.  Date is the proleptic Gregorian calendar; the local zone   *)
(* is taken to keep one offset over the span, so a day is 86 400 000 ms.   *)
(***************************************************************************)
EpochYear == 1899
EpochMonth == 12
EpochDay == 30

IsLeapYear(y) == (y % 4 = 0 /\ y % 100 # 0) \/ y % 400 = 0

DaysInMonth(y, m) ==
    IF m = 2 THEN (IF IsLeapYear(y) THEN 29 ELSE 28)
    ELSE IF m \in {4, 6, 9, 11} THEN 30 ELSE 31

DaysInYear(y) == IF IsLeapYear(y) THEN 366 ELSE 365

\* the calendar date n days after year-month-day
RECURSIVE AddDays(_, _, _, _)
AddDays(y, m, d, n) ==
    IF m = 1 /\ d = 1 /\ n >= DaysInYear(y) THEN AddDays(y + 1, 1, 1, n - DaysInYear(y))
    ELSE IF d + n <= DaysInMonth(y, m) THEN [year |-> y, month |-> m, day |-> d + n]
    ELSE IF m = 12 THEN AddDays(y + 1, 1, 1, n - (DaysInMonth(y, m) - d + 1))
    ELSE AddDays(y, m + 1, 1, n - (DaysInMonth(y, m) - d + 1))

\* String(n).padStart(2, '0')
PadStart2(n) == IF n < 10 THEN <<"0">> \o NatToDigits(n) ELSE NatToDigits(n)

excelDateToString(serial) ==
    LET date == AddDays(EpochYear, EpochMonth, EpochDay, WholeDays(serial))
        dd == PadStart2(date.day)
        mm == PadStart2(date.month)
        yyyy == NatToDigits(date.year)
    IN dd \o <<"/">> \o mm \o <<"/">> \o yyyy

(***************************************************************************)
(* StylesInfo and the format classifiers                                   *)
(***************************************************************************)
Undefined == [defined |-> FALSE]
Defined(v) == [defined |-> TRUE, val |-> v]

EmptyStyles == [cellXfsNumFmtIds |-> <<>>, numFmts |-> <<>>]

builtInDateIds == {14, 15, 16, 17, 22}
builtInPercentIds == {9, 10}

\* styles.cellXfsNumFmtIds[styleIndex]
NumFmtIdAt(st, styleIndex) ==
    IF styleIndex + 1 \in DOMAIN st.cellXfsNumFmtIds
    THEN Defined(st.cellXfsNumFmtIds[styleIndex + 1])
    ELSE Undefined

\* styles.numFmts[numFmtId]; numFmts is a sequence of <<id, code>>, the last
\* declaration of an id being the one kept
FormatCodeOf(st, numFmtId) ==
    LET hits == {i \in DOMAIN st.numFmts : st.numFmts[i][1] = numFmtId}
    IN IF hits = {} THEN Undefined
       ELSE Defined(st.numFmts[CHOOSE i \in hits : \A j \in hits : j <= i][2])

Includes(s, c) == \E i \in 1..Len(s) : s[i] = c

\* code.replace(/"[^"]*"/g, ''): every quoted stretch is removed, an unpaired
\* quote stays
RECURSIVE StripQuoted(_)
StripQuoted(s) ==
    LET opens == {i \in 1..Len(s) : s[i] = "\""}
    IN IF opens = {} THEN s
       ELSE LET i == CHOOSE k \in opens : \A l \in opens : k <= l
                closes == {j \in opens : j > i}
            IN IF closes = {} THEN s
               ELSE LET j == CHOOSE k \in closes : \A l \in closes : k <= l
                    IN SubSeq(s, 1, i - 1) \o StripQuoted(SubSeq(s, j + 1, Len(s)))

DateLetters == {"d", "m", "y"}

\* /(^|[^a-z])([dmy]){1,}/i.test(cleaned) || /dd|mm|yy|yyyy/.test(cleaned)
HasDateTokens(cleaned) ==
    \/ \E i \in 1..Len(cleaned) :
          /\ LowerChar(cleaned[i]) \in DateLetters
          /\ (i = 1 \/ ~IsLetter(cleaned[i - 1]))
    \/ \E i \in 1..(Len(cleaned) - 1) :
          /\ cleaned[i] \in DateLetters
          /\ cleaned[i + 1] = cleaned[i]

isDateFormat(numFmtId, formatCode) ==
    IF numFmtId \in builtInDateIds THEN TRUE
    ELSE IF ~formatCode.defined \/ formatCode.val = <<>> THEN FALSE
    ELSE LET code == toLowerCase(formatCode.val)
             cleaned == StripQuoted(code)
             hasDateTokens == HasDateTokens(cleaned)
             hasPercent == Includes(cleaned, "%")
         IN hasDateTokens /\ ~hasPercent

isPercentFormat(numFmtId, formatCode) ==
    IF numFmtId \in builtInPercentIds THEN TRUE
    ELSE IF ~formatCode.defined \/ formatCode.val = <<>> THEN FALSE
    ELSE Includes(formatCode.val, "%")

(***************************************************************************)
(* Worksheet markup.  The worksheet is the sequence of its <c> elements in *)
(* document order (rows only wrap them; no other element of a worksheet    *)
(* begins with "<c" and carries an r attribute before a "</c>").  An       *)
(* element is [attrs, close, body]: attrs the sequence of <<name, value>>  *)
(* as written; close "self" for <c .../> and "pair" for <c ...>...</c>;    *)
(* body "none", "f" (a formula and no cached value) or "v" (a <v>          *)
(* element), with v the text inside <v>.                                   *)
(***************************************************************************)
HasClosingTag(el) == el.close = "pair"

\* r="cellRef": the closing quote is part of the pattern, so the value is the
\* whole address (variant: the pattern without it, matching any longer address)
AddressPrefix(value, cellRef) ==
    Len(value) >= Len(cellRef) /\ SubSeq(value, 1, Len(cellRef)) = cellRef

AddressMatches(value, cellRef) == value = cellRef

\* position of the attribute r="cellRef" in an open tag, 0 if none
RefPosition(el, cellRef) ==
    LET hits == {i \in DOMAIN el.attrs :
                    el.attrs[i][1] = "r" /\ AddressMatches(el.attrs[i][2], cellRef)}
    IN IF hits = {} THEN 0 ELSE CHOOSE i \in hits : \A j \in hits : j <= i

\* sheetXml.match(cellRegex): the first open tag that carries r="cellRef" and
\* has a "</c>" somewhere after it.  attrs is what follows r="..." in the tag;
\* inner runs lazily to the first "</c>": the element's own content when it is
\* closed by a tag, otherwise everything up to the end of the next element that
\* is closed by one
CellMatch(sheet, cellRef) ==
    LET closers(k) == {j \in k..Len(sheet) : HasClosingTag(sheet[j])}
        hits == {k \in 1..Len(sheet) :
                    RefPosition(sheet[k], cellRef) > 0 /\ closers(k) # {}}
    IN IF hits = {} THEN NoMatch
       ELSE LET k == CHOOSE h \in hits : \A g \in hits : h <= g
                j == CHOOSE c \in closers(k) : \A d \in closers(k) : c <= d
                el == sheet[k]
            IN [matched |-> TRUE,
                attrs |-> SubSeq(el.attrs, RefPosition(el, cellRef) + 1, Len(el.attrs)),
                inner |-> sheet[j]]

\* /t="s"/.test(attrs)
IsSharedString(attrs) ==
    \E i \in DOMAIN attrs : attrs[i][1] = "t" /\ attrs[i][2] = <<"s">>

\* attrs.match(/s="(\d+)"/)
StyleMatch(attrs) ==
    LET hits == {i \in DOMAIN attrs : attrs[i][1] = "s" /\ AllDigitsOf(attrs[i][2])}
    IN IF hits = {} THEN Undefined
       ELSE Defined(DigitsToNat(attrs[CHOOSE i \in hits : \A j \in hits : i <= j][2]))

\* innerXml.match(/<v>(\d+)<\/v>/) and innerXml.match(/<v>([\s\S]*?)<\/v>/)
PointerMatch(inner) ==
    IF inner.body = "v" /\ AllDigitsOf(inner.v) THEN Defined(inner.v) ELSE Undefined

ValueMatch(inner) ==
    IF inner.body = "v" THEN Defined(inner.v) ELSE Undefined

\* sharedStrings[Number(v[1])] ?? null
SharedStringAt(table, pointer) ==
    IF pointer + 1 \in DOMAIN table THEN Text(table[pointer + 1]) ELSE Null

\* what a percent cell returns: rawNumber (the rescaling is commented out)
PercentValue(rawNumber) == rawNumber

getCellValue(sheet, cellRef, strings, st) ==
    LET match == CellMatch(sheet, cellRef)
    IN IF ~match.matched THEN Null
       ELSE
       LET attrs == match.attrs
           innerXml == match.inner
       IN IF IsSharedString(attrs)
          THEN LET v == PointerMatch(innerXml)
               IN IF v.defined THEN SharedStringAt(strings, DigitsToNat(v.val)) ELSE Null
          ELSE
          LET v == ValueMatch(innerXml)
          IN IF ~v.defined THEN Null
             ELSE
             LET rawText == v.val
                 rawNumber == ToNumber(rawText)
                 styleMatch == StyleMatch(attrs)
             IN IF rawNumber = NaN THEN Text(rawText)
                ELSE IF ~styleMatch.defined THEN NumberValue(rawNumber)
                ELSE
                LET numFmtId == NumFmtIdAt(st, styleMatch.val)
                IN IF ~numFmtId.defined THEN NumberValue(rawNumber)
                   ELSE
                   LET formatCode == FormatCodeOf(st, numFmtId.val)
                   IN IF isDateFormat(numFmtId.val, formatCode)
                      THEN Text(excelDateToString(rawNumber))
                      ELSE IF isPercentFormat(numFmtId.val, formatCode)
                      THEN NumberValue(PercentValue(rawNumber))
                      ELSE NumberValue(rawNumber)

(***************************************************************************)
(* Harness for parseInterval: a caller types an expression and parses it   *)
(***************************************************************************)
ExprAlphabet == {"H", "h", "I", "0", "1", "-"}

Pending == [pending |-> TRUE]

\* no lerIntervalos call is under way
IdleCall ==
    /\ pc = "idle"
    /\ file = <<>>
    /\ aba = 0
    /\ intervalos = <<>>
    /\ resultado = <<>>
    /\ idx = 0
    /\ outcome = <<>>
    /\ parsed = 0
    /\ resolved = 0

idleVars == <<pc, file, aba, intervalos, resultado, idx, outcome, parsed, resolved>>

InitParse ==
    /\ IdleCall
    /\ sheetXml = <<>>
    /\ sharedStrings = <<>>
    /\ styles = EmptyStyles
    /\ input = <<>>
    /\ output = Pending

TypeChar ==
    /\ output = Pending
    /\ Len(input) < MaxExprLen
    /\ \E c \in ExprAlphabet : input' = Append(input, c)
    /\ UNCHANGED <<output, sheetXml, sharedStrings, styles, idleVars>>

CallParseInterval ==
    /\ output = Pending
    /\ output' = parseInterval(input)
    /\ UNCHANGED <<input, sheetXml, sharedStrings, styles, idleVars>>

NextParse == TypeChar \/ CallParseInterval

SpecParse == InitParse /\ [][NextParse]_vars

(***************************************************************************)
(* Harness for getCellValue on worksheet markup: a worksheet is written    *)
(* cell by cell, then one address is resolved against it                   *)
(***************************************************************************)
H1 == <<"H", "1">>
H12 == <<"H", "1", "2">>
A1 == <<"A", "1">>

AttrR(ref) == <<"r", ref>>
AttrT == <<"t", <<"s">>>>
AttrS(n) == <<"s", NatToDigits(n)>>

SelfClosed(attrs) == [attrs |-> attrs, close |-> "self", body |-> "none", v |-> <<>>]
EmptyCell(attrs) == [attrs |-> attrs, close |-> "pair", body |-> "none", v |-> <<>>]
FormulaCell(attrs) == [attrs |-> attrs, close |-> "pair", body |-> "f", v |-> <<>>]
ValueCell(attrs, text) == [attrs |-> attrs, close |-> "pair", body |-> "v", v |-> text]

PointerTexts == {<<>>, <<"0">>, <<"5">>}

CellsWith(attrs) ==
    {SelfClosed(attrs), EmptyCell(attrs), FormulaCell(attrs)}
        \cup {ValueCell(attrs, t) : t \in PointerTexts}

CellElems ==
    CellsWith(<<AttrR(H1)>>) \cup CellsWith(<<AttrR(H1), AttrT>>)
        \cup CellsWith(<<AttrT, AttrR(H1)>>)
        \cup {SelfClosed(<<AttrR(H12)>>), ValueCell(<<AttrR(H12)>>, <<"0">>),
              ValueCell(<<AttrR(H12)>>, <<"5">>)}

StringTables == {<<>>, << <<"a", "b">> >>}

InitCell ==
    /\ IdleCall
    /\ sheetXml = <<>>
    /\ sharedStrings \in StringTables
    /\ styles = EmptyStyles
    /\ input \in {H1, H12}
    /\ output = Pending

WriteCell ==
    /\ output = Pending
    /\ Len(sheetXml) < MaxCells
    /\ \E el \in CellElems : sheetXml' = Append(sheetXml, el)
    /\ UNCHANGED <<sharedStrings, styles, input, output, idleVars>>

CallGetCellValue ==
    /\ output = Pending
    /\ output' = getCellValue(sheetXml, input, sharedStrings, styles)
    /\ UNCHANGED <<sheetXml, sharedStrings, styles, input, idleVars>>

NextCell == WriteCell \/ CallGetCellValue

SpecCell == InitCell /\ [][NextCell]_vars

(***************************************************************************)
(* Harness for getCellValue on styled numeric cells: a style table is      *)
(* declared, one styled cell is written, and its address is resolved       *)
(***************************************************************************)
XfFormatIds == {0, 9, 14, 164}
CustomFormatIds == {9, 164}
FormatCodes ==
    { <<"0">>, <<"0", "%">>, <<"d", "d">>, <<"\"", "%", "\"", "d">>,
      <<"\"", "d", "\"", "0">> }
ValueTexts == { <<"1">>, <<"0", ".", "1">> }

InitFormat ==
    /\ IdleCall
    /\ sheetXml = <<>>
    /\ sharedStrings = <<>>
    /\ styles = EmptyStyles
    /\ input = A1
    /\ output = Pending

\* an <xf numFmtId="id"/> of cellXfs
DeclareXf ==
    /\ output = Pending
    /\ Len(styles.cellXfsNumFmtIds) < MaxXfs
    /\ \E id \in XfFormatIds :
          styles' = [styles EXCEPT !.cellXfsNumFmtIds = Append(@, id)]
    /\ UNCHANGED <<sheetXml, sharedStrings, input, output, idleVars>>

\* a <numFmt numFmtId="id" formatCode="code"/> of numFmts
DeclareNumFmt ==
    /\ output = Pending
    /\ Len(styles.numFmts) < MaxNumFmts
    /\ \E id \in CustomFormatIds, code \in FormatCodes :
          styles' = [styles EXCEPT !.numFmts = Append(@, <<id, code>>)]
    /\ UNCHANGED <<sheetXml, sharedStrings, input, output, idleVars>>

WriteStyledCell ==
    /\ output = Pending
    /\ sheetXml = <<>>
    /\ \E text \in ValueTexts :
          \/ sheetXml' = <<ValueCell(<<AttrR(A1)>>, text)>>
          \/ \E n \in 0..MaxXfs :
                sheetXml' = <<ValueCell(<<AttrR(A1), AttrS(n)>>, text)>>
    /\ UNCHANGED <<sharedStrings, styles, input, output, idleVars>>

NextFormat == DeclareXf \/ DeclareNumFmt \/ WriteStyledCell \/ CallGetCellValue

SpecFormat == InitFormat /\ [][NextFormat]_vars

(***************************************************************************)
(* The grammar of range expressions, stated on the text itself:            *)
(* COL ROW - COL ROW cut at a (end of the first column token), b (end of   *)
(* the first row token) and c (end of the second column token)             *)
(***************************************************************************)
AllLetters(s) == Len(s) >= 1 /\ \A i \in 1..Len(s) : IsLetter(s[i])
AllDigits(s) == Len(s) >= 1 /\ \A i \in 1..Len(s) : IsDigit(s[i])

IsRangeCut(s, a, b, c) ==
    /\ 1 <= a /\ a < b /\ b + 1 < c /\ c < Len(s)
    /\ s[b + 1] = "-"
    /\ AllLetters(SubSeq(s, 1, a))
    /\ AllDigits(SubSeq(s, a + 1, b))
    /\ AllLetters(SubSeq(s, b + 2, c))
    /\ AllDigits(SubSeq(s, c + 1, Len(s)))

IsSingleCut(s, a) ==
    /\ 1 <= a /\ a < Len(s)
    /\ AllLetters(SubSeq(s, 1, a))
    /\ AllDigits(SubSeq(s, a + 1, Len(s)))

SameColumnNoCase(s, a, b, c) ==
    toUpperCase(SubSeq(s, 1, a)) = toUpperCase(SubSeq(s, b + 2, c))

\* the positions b that a "-" follows
RowEnds(s) == {b \in 1..(Len(s) - 1) : s[b + 1] = "-"}

IsRangeForm(s) ==
    \E b \in RowEnds(s) : \E a \in 1..(b - 1) : \E c \in (b + 2)..(Len(s) - 1) :
        IsRangeCut(s, a, b, c)
IsSingleForm(s) == \E a \in 1..(Len(s) - 1) : IsSingleCut(s, a)

\* C2: for every expression COLn-COLm whose two column tokens are the same
\* letters ignoring case, parseInterval returns {col: COL uppercased, start: n,
\* end: m}; for every single-cell expression COLn it returns
\* {col: COL uppercased, start: n, end: n}.
C2_ParseReturnsRange ==
    output # Pending =>
        /\ \A b \in RowEnds(input) :
           \A a \in 1..(b - 1) : \A c \in (b + 2)..(Len(input) - 1) :
              (IsRangeCut(input, a, b, c) /\ SameColumnNoCase(input, a, b, c)) =>
                  output = [col |-> toUpperCase(SubSeq(input, 1, a)),
                            start |-> DigitsToNat(SubSeq(input, a + 1, b)),
                            end |-> DigitsToNat(SubSeq(input, c + 1, Len(input)))]
        /\ \A a \in 1..(Len(input) - 1) :
              IsSingleCut(input, a) =>
                  output = [col |-> toUpperCase(SubSeq(input, 1, a)),
                            start |-> DigitsToNat(SubSeq(input, a + 1, Len(input))),
                            end |-> DigitsToNat(SubSeq(input, a + 1, Len(input)))]

\* "h1-H10" was parsed: the columns differ in case only
C2_Witness ==
    /\ input = <<"h", "1", "-", "H", "1", "0">>
    /\ output = [col |-> <<"H">>, start |-> 1, end |-> 10]

\* C3: parseInterval throws InvalidRangeExpression for every string that is
\* neither of the range form nor of the single-cell form, and for every
\* range-form string whose two column tokens differ; it returns no range then.
C3_ParseRejects ==
    output # Pending =>
        /\ (~IsRangeForm(input) /\ ~IsSingleForm(input)) =>
              output = InvalidRangeExpression(input)
        /\ \A b \in RowEnds(input) :
           \A a \in 1..(b - 1) : \A c \in (b + 2)..(Len(input) - 1) :
              (IsRangeCut(input, a, b, c) /\ ~SameColumnNoCase(input, a, b, c)) =>
                  output = InvalidRangeExpression(input)

\* "H1-I1" was rejected: a range over two columns
C3_Witness ==
    /\ input = <<"H", "1", "-", "I", "1">>
    /\ IsError(output)

(***************************************************************************)
(* parseSharedStrings and parseStyles.  The shared-strings part is the     *)
(* sequence of its <si> items, an item being the sequence of its text      *)
(* runs; the styles part is [numFmts, hasCellXfs, xfs]: the <numFmt>       *)
(* declarations as <<id, code>>, whether a <cellXfs> block exists, and the *)
(* numFmtId attribute of each of its <xf> records (Undefined when the      *)
(* record has none).                                                       *)
(***************************************************************************)
\* /<si>[\s\S]*?<t[^>]*>([\s\S]*?)<\/t>[\s\S]*?<\/si>/g: a match begins at an
\* <si> and takes the first text run found from there, running over the end
\* of an item that has none; it ends at the "</si>" after that run
RECURSIVE parseSharedStrings(_)
parseSharedStrings(items) ==
    LET withRun == {i \in 1..Len(items) : items[i] # <<>>}
    IN IF withRun = {} THEN <<>>
       ELSE LET i == CHOOSE k \in withRun : \A l \in withRun : k <= l
            IN <<items[i][1]>> \o parseSharedStrings(SubSeq(items, i + 1, Len(items)))

parseStyles(part) ==
    [cellXfsNumFmtIds |->
        IF part.hasCellXfs
        THEN [i \in 1..Len(part.xfs) |->
                IF part.xfs[i].defined THEN part.xfs[i].val ELSE 0]
        ELSE <<>>,
     numFmts |-> part.numFmts]

(***************************************************************************)
(* lerIntervalos.  A part of the container is Undefined when the archive   *)
(* has no entry of that name; the text of a worksheet part is              *)
(* [blank, cells], blank meaning a text of length zero (the containers     *)
(* studied below hold no such part: a worksheet has at least its root).    *)
(***************************************************************************)
SheetNotFound(n) == [err |-> "SheetNotFound", aba |-> n]
TypeError == [err |-> "TypeError"]
Returned == [returned |-> TRUE]

\* !sheetXml: undefined or the empty string (variant: the test left out)
NeverFalsy(text) == FALSE

IsFalsy(text) == ~text.defined \/ text.val.blank

\* zip.file(`xl/worksheets/sheet${aba}.xml`)?.async('string')
SheetPart(f, n) == IF n \in DOMAIN f.sheets THEN f.sheets[n] ELSE Undefined

\* if (!resultado[col]) resultado[col] = {}: the rows already stored under col
\* (variant: resultado[col] = {} on every range, as in
\* src/excel-reader.service.ts line 44)
ColumnReset(res, col) == <<>>

ColumnOf(res, col) == IF col \in DOMAIN res THEN res[col] ELSE <<>>

\* the for loop over start..end: resultado[col][row] = getCellValue(...)
FillRows(res, col, start, end, sheet, strings, st) ==
    LET before == ColumnOf(res, col)
        rows == [row \in (DOMAIN before) \cup (start..end) |->
                    IF row \in start..end
                    THEN getCellValue(sheet, col \o NatToDigits(row), strings, st)
                    ELSE before[row]]
    IN [c \in (DOMAIN res) \cup {col} |-> IF c = col THEN rows ELSE res[c]]

\* await JSZip.loadAsync(file)
LoadZip ==
    /\ pc = "open"
    /\ pc' = "readSheet"
    /\ UNCHANGED <<file, aba, intervalos, sheetXml, sharedStrings, styles,
                   resultado, idx, outcome, parsed, resolved, input, output>>

\* the worksheet part is read; a falsy text throws
ReadSheet ==
    /\ pc = "readSheet"
    /\ sheetXml' = SheetPart(file, aba)
    /\ IF IsFalsy(sheetXml')
       THEN outcome' = SheetNotFound(aba) /\ pc' = "done"
       ELSE outcome' = outcome /\ pc' = "readStrings"
    /\ UNCHANGED <<file, aba, intervalos, sharedStrings, styles,
                   resultado, idx, parsed, resolved, input, output>>

\* zip.file('xl/sharedStrings.xml')!.async('string'): the ! is erased by the
\* compiler, so an absent part is a call on null
ReadSharedStrings ==
    /\ pc = "readStrings"
    /\ IF file.sharedStrings.defined
       THEN /\ sharedStrings' = parseSharedStrings(file.sharedStrings.val)
            /\ outcome' = outcome
            /\ pc' = "readStyles"
       ELSE /\ sharedStrings' = sharedStrings
            /\ outcome' = TypeError
            /\ pc' = "done"
    /\ UNCHANGED <<file, aba, intervalos, sheetXml, styles,
                   resultado, idx, parsed, resolved, input, output>>

ReadStyles ==
    /\ pc = "readStyles"
    /\ styles' = IF file.styles.defined THEN parseStyles(file.styles.val) ELSE EmptyStyles
    /\ resultado' = <<>>
    /\ pc' = "loop"
    /\ UNCHANGED <<file, aba, intervalos, sheetXml, sharedStrings,
                   idx, outcome, parsed, resolved, input, output>>

\* one turn of the for-of loop: parse the expression, then resolve its rows
ProcessInterval ==
    /\ pc = "loop"
    /\ idx < Len(intervalos)
    /\ LET range == parseInterval(intervalos[idx + 1])
       IN /\ parsed' = parsed + 1
          /\ IF IsError(range)
             THEN /\ outcome' = range
                  /\ pc' = "done"
                  /\ UNCHANGED <<resultado, idx, resolved>>
             ELSE IF ~sheetXml.defined /\ range.start <= range.end
             THEN /\ outcome' = TypeError
                  /\ pc' = "done"
                  /\ UNCHANGED <<resultado, idx, resolved>>
             ELSE /\ resultado' = FillRows(resultado, range.col, range.start, range.end,
                                           IF sheetXml.defined THEN sheetXml.val.cells ELSE <<>>,
                                           sharedStrings, styles)
                  /\ resolved' = resolved + Cardinality(range.start..range.end)
                  /\ idx' = idx + 1
                  /\ UNCHANGED <<outcome, pc>>
    /\ UNCHANGED <<file, aba, intervalos, sheetXml, sharedStrings, styles, input, output>>

\* return resultado
Return ==
    /\ pc = "loop"
    /\ idx = Len(intervalos)
    /\ outcome' = Returned
    /\ pc' = "done"
    /\ UNCHANGED <<file, aba, intervalos, sheetXml, sharedStrings, styles,
                   resultado, idx, parsed, resolved, input, output>>

(***************************************************************************)
(* The calls studied: containers, sheet indexes and range lists            *)
(***************************************************************************)
H2 == <<"H", "2">>
H5 == <<"H", "5">>
H6 == <<"H", "6">>
I1 == <<"I", "1">>

\* <c r="H1"><v>5</v></c><c r="H2" t="s"><v>0</v></c><c r="H5" s="0"/>
\* <c r="H6" s="0"><v>1</v></c><c r="I1"><v>x</v></c>
SheetA ==
    [blank |-> FALSE,
     cells |-> << ValueCell(<<AttrR(H1)>>, <<"5">>),
                  ValueCell(<<AttrR(H2), AttrT>>, <<"0">>),
                  SelfClosed(<<AttrR(H5), AttrS(0)>>),
                  ValueCell(<<AttrR(H6), AttrS(0)>>, <<"1">>),
                  ValueCell(<<AttrR(I1)>>, <<"x">>) >>]

SharedStringsA == << <<<<"a", "b">>>>, <<>>, <<<<"c">>, <<"d">>>> >>

StylesA ==
    [numFmts |-> << <<164, <<"0", "%">>>> >>,
     hasCellXfs |-> TRUE,
     xfs |-> <<Defined(14), Undefined, Defined(164)>>]

Files ==
    [sheets : {<<>>} \cup [{1} -> {Defined(SheetA)}] \cup [{1, 2} -> {Defined(SheetA)}],
     sharedStrings : {Undefined, Defined(SharedStringsA)},
     styles : {Undefined, Defined(StylesA)}]

RangeExprs ==
    { <<"H", "1", "-", "H", "2">>, <<"H", "5", "-", "H", "6">>,
      <<"h", "2", "-", "H", "5">>, <<"H", "2">>, <<"I", "1">>,
      <<"H", "2", "-", "H", "1">>, <<"H", "1", "-", "I", "2">> }

RangeLists == UNION {[1..n -> RangeExprs] : n \in 0..MaxRanges}

Init ==
    /\ pc = "open"
    /\ file \in Files
    /\ aba \in {1, 2}
    /\ intervalos \in RangeLists
    /\ sheetXml = Undefined
    /\ sharedStrings = <<>>
    /\ styles = EmptyStyles
    /\ resultado = <<>>
    /\ idx = 0
    /\ outcome = Pending
    /\ parsed = 0
    /\ resolved = 0
    /\ input = <<>>
    /\ output = Pending

Next ==
    \/ LoadZip
    \/ ReadSheet
    \/ ReadSharedStrings
    \/ ReadStyles
    \/ ProcessInterval
    \/ Return

Spec == Init /\ [][Next]_vars

(***************************************************************************)
(* The worksheet read as a document: the cell elements and their parts     *)
(***************************************************************************)
\* the address attribute of a cell element, wherever it stands in the tag
AddressOf(el) ==
    LET hits == {i \in DOMAIN el.attrs : el.attrs[i][1] = "r"}
    IN IF hits = {} THEN Undefined ELSE Defined(el.attrs[CHOOSE i \in hits : TRUE][2])

CellsAt(sheet, ref) == {k \in 1..Len(sheet) : AddressOf(sheet[k]) = Defined(ref)}

\* the first cell element with the address
FirstCellAt(sheet, ref) == sheet[CHOOSE k \in CellsAt(sheet, ref) : \A l \in CellsAt(sheet, ref) : k <= l]

\* the type attribute marks the cell as a shared-string reference
MarkedSharedString(el) == \E i \in DOMAIN el.attrs : el.attrs[i] = AttrT

\* the cell carries a value token: a <v> element with text in it
CarriesValue(el) == el.close = "pair" /\ el.body = "v" /\ el.v # <<>>

\* C7: when the worksheet holds no cell element with exactly the requested
\* address, getCellValue returns null; a cell whose address only begins with
\* the requested one (H12 for H1) does not count.
C7_AbsentCellIsNull ==
    (output # Pending /\ CellsAt(sheetXml, input) = {}) => output = Null

\* H1 was resolved to null on a worksheet whose only valued cell is H12
C7_Witness ==
    /\ input = H1
    /\ sheetXml = <<ValueCell(<<AttrR(H12)>>, <<"5">>)>>
    /\ output = Null

\* C8: for a cell marked as a shared-string reference, wherever its t attribute
\* stands, getCellValue returns null when the pointer is absent or outside the
\* table, and the table's text at the pointer otherwise.
C8_SharedStringResolved ==
    (output # Pending /\ CellsAt(sheetXml, input) # {}
        /\ MarkedSharedString(FirstCellAt(sheetXml, input))) =>
        LET el == FirstCellAt(sheetXml, input)
        IN IF CarriesValue(el) /\ AllDigitsOf(el.v)
              /\ DigitsToNat(el.v) < Len(sharedStrings)
           THEN output = Text(sharedStrings[DigitsToNat(el.v) + 1])
           ELSE output = Null

\* C10: when the cell with the requested address carries no value token (self
\* closed, empty, an empty <v>, or a formula without cached value),
\* getCellValue returns null whatever cells follow it.
C10_NoValueIsNull ==
    (output # Pending /\ CellsAt(sheetXml, input) # {}
        /\ ~CarriesValue(FirstCellAt(sheetXml, input))) => output = Null

\* the styled numeric cell of SpecFormat: its style index, its format id
StyledCell == sheetXml[1]
StyleIndexOf(el) ==
    LET hits == {i \in DOMAIN el.attrs : el.attrs[i][1] = "s"}
    IN IF hits = {} THEN Undefined
       ELSE Defined(DigitsToNat(el.attrs[CHOOSE i \in hits : TRUE][2]))

ResolvedFormatId ==
    IF sheetXml = <<>> \/ ~StyleIndexOf(StyledCell).defined THEN Undefined
    ELSE NumFmtIdAt(styles, StyleIndexOf(StyledCell).val)

\* C5: a numeric cell whose style resolves to a format id in {14,15,16,17,22}
\* and whose stored serial is 1 is returned as the text "01/01/1900".
C5_SerialOneIsDayOne ==
    (output # Pending /\ ResolvedFormatId.defined
        /\ ResolvedFormatId.val \in {14, 15, 16, 17, 22}
        /\ StyledCell.v = <<"1">>) =>
        output = Text(<<"0", "1", "/", "0", "1", "/", "1", "9", "0", "0">>)

\* C6: a numeric cell whose style resolves to a format id in {9,10} is returned
\* as its stored number, whatever custom format codes the style table declares.
C6_PercentUnchanged ==
    (output # Pending /\ ResolvedFormatId.defined
        /\ ResolvedFormatId.val \in {9, 10}) =>
        output = NumberValue(ToNumber(StyledCell.v))


(***************************************************************************)
(* Claims about lerIntervalos                                              *)
(***************************************************************************)
ParsedRanges == {parseInterval(intervalos[i]) : i \in 1..Len(intervalos)}

AllRangesValid == \A r \in ParsedRanges : ~IsError(r)

\* C1: when lerIntervalos returns, the row keys stored under each column are
\* exactly the union of the intervals start..end of the ranges naming that
\* column, and the columns are exactly those the ranges name: a later range
\* on a column removes nothing an earlier one stored.
C1_RowsAreUnion ==
    (pc = "done" /\ outcome = Returned) =>
        /\ DOMAIN resultado = {r.col : r \in ParsedRanges}
        /\ \A col \in DOMAIN resultado :
              DOMAIN resultado[col] =
                  UNION {r.start..r.end : r \in {q \in ParsedRanges : q.col = col}}

\* ["H1-H2", "H5-H6"] returned with column H holding rows 1, 2, 5 and 6
C1_Witness ==
    /\ pc = "done"
    /\ outcome = Returned
    /\ intervalos = << <<"H", "1", "-", "H", "2">>, <<"H", "5", "-", "H", "6">> >>
    /\ DOMAIN resultado[<<"H">>] = {1, 2, 5, 6}

\* C4: when the container has no worksheet part for the requested index,
\* lerIntervalos fails with SheetNotFound naming that index, having parsed no
\* range expression and resolved no cell, whatever the range list holds.
C4_SheetNotFoundFirst ==
    (pc = "done" /\ ~SheetPart(file, aba).defined) =>
        /\ outcome = SheetNotFound(aba)
        /\ parsed = 0
        /\ resolved = 0

\* sheet 2 of a one-sheet container was asked for with an invalid range first
C4_Witness ==
    /\ pc = "done"
    /\ aba = 2
    /\ DOMAIN file.sheets = {1}
    /\ file.sharedStrings.defined
    /\ intervalos = << <<"H", "1", "-", "I", "2">>, <<"H", "2">> >>
    /\ outcome = SheetNotFound(2)

\* C9: lerIntervalos fails in two ways only, SheetNotFound and
\* InvalidRangeExpression; when the worksheet part exists and every range is
\* valid it returns a result, whichever other parts the container lacks.
C9_OnlyTwoFailures ==
    pc = "done" =>
        /\ \/ outcome = Returned
           \/ outcome = SheetNotFound(aba)
           \/ \E i \in 1..Len(intervalos) : outcome = InvalidRangeExpression(intervalos[i])
        /\ (SheetPart(file, aba).defined /\ AllRangesValid) => outcome = Returned


(***************************************************************************)
(* Claims about the format classifiers                                     *)
(***************************************************************************)
\* the custom format code the styled cell's format id resolves to
ResolvedFormatCode == FormatCodeOf(styles, ResolvedFormatId.val)

\* what the styled numeric cell would give with the two tests in the other
\* order, percent before date
PercentTestedFirst ==
    LET rawNumber == ToNumber(StyledCell.v)
    IN IF isPercentFormat(ResolvedFormatId.val, ResolvedFormatCode)
       THEN NumberValue(rawNumber)
       ELSE IF isDateFormat(ResolvedFormatId.val, ResolvedFormatCode)
       THEN Text(excelDateToString(rawNumber))
       ELSE NumberValue(rawNumber)

\* C11: for every format id and optional custom code, isDateFormat and
\* isPercentFormat are never both true, so testing date before percent gives
\* the value that testing percent before date would give.
C11_PercentExcludesDate ==
    (output # Pending /\ ResolvedFormatId.defined) =>
        /\ ~(/\ isDateFormat(ResolvedFormatId.val, ResolvedFormatCode)
             /\ isPercentFormat(ResolvedFormatId.val, ResolvedFormatCode))
        /\ output = PercentTestedFirst

(***************************************************************************)
(* The shared-strings table on its own: a part is declared item by item,   *)
(* lerIntervalos reads it (ReadSharedStrings), and a cell of type "s"      *)
(* pointing at one of the declared items is resolved through the table.    *)
(***************************************************************************)
\* <si> items a part may declare: without a text run, with one, with two
ItemChoices ==
    { <<>>, << <<"a">> >>, << <<"b">> >>, << <<"c">>, <<"d">> >> }

StringsPart(items) ==
    [sheets |-> <<>>, sharedStrings |-> Defined(items), styles |-> Undefined]

InitStrings ==
    /\ pc = "readStrings"
    /\ file = StringsPart(<<>>)
    /\ aba = 0
    /\ intervalos = <<>>
    /\ sheetXml = <<>>
    /\ sharedStrings = <<>>
    /\ styles = EmptyStyles
    /\ resultado = <<>>
    /\ idx = 0
    /\ outcome = Pending
    /\ parsed = 0
    /\ resolved = 0
    /\ input = A1
    /\ output = Pending

\* one more <si> item in the part, before it is read
DeclareItem ==
    /\ pc = "readStrings"
    /\ Len(file.sharedStrings.val) < MaxItems
    /\ \E item \in ItemChoices :
          file' = StringsPart(Append(file.sharedStrings.val, item))
    /\ UNCHANGED <<pc, aba, intervalos, sheetXml, sharedStrings, styles,
                   resultado, idx, outcome, parsed, resolved, input, output>>

\* the worksheet holds <c r="A1" t="s"><v>k</v></c>, k the zero-based position
\* of a declared item
WritePointerCell ==
    /\ pc = "readStyles"
    /\ sheetXml = <<>>
    /\ output = Pending
    /\ \E k \in 0..(Len(file.sharedStrings.val) - 1) :
          sheetXml' = <<ValueCell(<<AttrR(A1), AttrT>>, NatToDigits(k))>>
    /\ UNCHANGED <<sharedStrings, styles, input, output, idleVars>>

NextStrings ==
    DeclareItem \/ ReadSharedStrings \/ WritePointerCell \/ CallGetCellValue

SpecStrings == InitStrings /\ [][NextStrings]_vars

\* the <si> items the part declares
DeclaredItems == file.sharedStrings.val

\* the table has been built from the part
TableBuilt == pc = "readStyles"

\* the zero-based position the cell at A1 points at
PointerOfCell == DigitsToNat(sheetXml[1].v)

\* C12: the string at index k of the table parseSharedStrings builds is the
\* first text run of the k-th declared item, also when other items have no
\* text run; so a cell pointing at item k resolves to that item's first run.
C12_IndexIsItemPosition ==
    /\ TableBuilt =>
          \A k \in 1..Len(DeclaredItems) :
             DeclaredItems[k] # <<>> =>
                /\ k \in DOMAIN sharedStrings
                /\ sharedStrings[k] = DeclaredItems[k][1]
    /\ (TableBuilt /\ output # Pending /\ sheetXml # <<>>
           /\ DeclaredItems[PointerOfCell + 1] # <<>>) =>
          output = Text(DeclaredItems[PointerOfCell + 1][1])

(***************************************************************************)
(* Claim about the rows of a parsed range                                  *)
(***************************************************************************)
\* C13: every range parseInterval returns has 1 <= start <= end (so every
\* address lerIntervalos builds from it has a row number of at least 1).
C13_RowsStartAtOne ==
    (output # Pending /\ ~IsError(output)) =>
        /\ 1 <= output.start
        /\ output.start <= output.end

====
